---------------------------- MODULE Spec2Model ----------------------------
(***************************************************************************)
(* A model of Finale_Script.py: the AnalysisLogger, detect_inconsistencies *)
(* and run_pipeline, one action per pipeline stage.                        *)
(*                                                                         *)
(* A DataFrame is [columns |-> <<name, ...>>, rows |-> <<row, ...>>] where  *)
(* a row is [idx |-> index label, cells |-> <<cell, ...>>] and a column    *)
(* name is the sequence of its characters.  A cell is a record tagged by   *)
(* t: "num" (an exact rational n/d standing for the float), "nan", "inf",  *)
(* "ninf", "str", "date" or "nat".                                         *)
(***************************************************************************)
EXTENDS Integers, Sequences, FiniteSets, TLC

VARIABLES
    pc,          \* position of run_pipeline, or of the function under call
    rawFile,     \* RAW_DATA_PATH on disk: [exists, table]
    df,          \* the working DataFrame of run_pipeline
    logger,      \* the AnalysisLogger: [txt, doc, calls, raised]
    cleanFile,   \* CLEAN_DATA_PATH on disk: [exists, writes, table]
    reportFile,  \* REPORT_PATH on disk: [exists, writes, doc]
    hist,        \* the stages run so far and the table the dedup step left
    call         \* arguments and result of the function called on its own

vars == <<pc, rawFile, df, logger, cleanFile, reportFile, hist, call>>

(***************************************************************************)
(* Bounds of the model.                                                    *)
(***************************************************************************)
MaxRows == 3
MaxDetectRows == 4
MaxNameLen == 4
MaxTableRows == 4
MaxLimit == 3

(***************************************************************************)
(* Configuration and names.                                                *)
(***************************************************************************)
RAW_DATA_PATH == "GBP_DataSource_Pr.csv"
CLEAN_DATA_PATH == "GBP_DataSource_clean.csv"
LOG_PATH == "GBP_DataSource_data_quality_log.txt"
REPORT_PATH == "GBP_DataSource_Analysis_Report.docx"

(* "Postal Code" *)
N_PostalCode == <<"P", "o", "s", "t", "a", "l", " ", "C", "o", "d", "e">>
(* "City" *)
N_City == <<"C", "i", "t", "y">>
(* "State" *)
N_State == <<"S", "t", "a", "t", "e">>
(* "Product ID" *)
N_ProductID == <<"P", "r", "o", "d", "u", "c", "t", " ", "I", "D">>
(* "Product Name" *)
N_ProductName == <<"P", "r", "o", "d", "u", "c", "t", " ", "N", "a", "m", "e">>
(* "Profit" *)
N_Profit == <<"P", "r", "o", "f", "i", "t">>
(* "Sales" *)
N_Sales == <<"S", "a", "l", "e", "s">>
(* "Profit_Margin" *)
N_Profit_Margin == <<"P", "r", "o", "f", "i", "t", "_", "M", "a", "r", "g", "i", "n">>
(* "Product_Full_Name" *)
N_Product_Full_Name == <<"P", "r", "o", "d", "u", "c", "t", "_", "F", "u", "l", "l", "_", "N", "a", "m", "e">>
(* "Order Date" *)
N_OrderDate == <<"O", "r", "d", "e", "r", " ", "D", "a", "t", "e">>
(* "Ship Date" *)
N_ShipDate == <<"S", "h", "i", "p", " ", "D", "a", "t", "e">>
(* "Quantity" *)
N_Quantity == <<"Q", "u", "a", "n", "t", "i", "t", "y">>
(* "Missing Count" *)
N_MissingCount == <<"M", "i", "s", "s", "i", "n", "g", " ", "C", "o", "u", "n", "t">>

DATE_COLS == <<N_OrderDate, N_ShipDate>>

(***************************************************************************)
(* Sequences.                                                              *)
(***************************************************************************)
Range(s) == {s[i] : i \in DOMAIN s}

Front(s) == SubSeq(s, 1, Len(s) - 1)

Last(s) == s[Len(s)]

SeqsUpTo(S, n) == UNION {[1..m -> S] : m \in 0..n}

(***************************************************************************)
(* Cells.  A float is kept as the exact rational it stands for; nan, inf   *)
(* and -inf are the IEEE specials pandas produces.                         *)
(***************************************************************************)
Abs(x) == IF x < 0 THEN -x ELSE x

RECURSIVE GCD(_, _)
GCD(a, b) == IF b = 0 THEN a ELSE GCD(b, a % b)

Num(n, d) ==
    LET g == GCD(Abs(n), Abs(d))
        s == IF d < 0 THEN -1 ELSE 1
    IN  [t |-> "num", n |-> (s * n) \div g, d |-> (s * d) \div g]

Int2Cell(n) == [t |-> "num", n |-> n, d |-> 1]

NaN == [t |-> "nan"]

PosInf == [t |-> "inf"]

NegInf == [t |-> "ninf"]

Str(s) == [t |-> "str", s |-> s]

Timestamp(n) == [t |-> "date", n |-> n]

NaT == [t |-> "nat"]

IsNA(c) == c.t \in {"nan", "nat"}

IsNumber(c) == c.t \in {"num", "nan", "inf", "ninf"}

IsFinite(c) == c.t = "num"

RatLess(a, b) == a.n * b.d < b.n * a.d

(* The strings of the model, in ascending (code point) order. *)
StrOrder == <<"2024-01-05", "Bolt", "CA", "Los Angeles", "NV", "Nut", "P1", "P2",
              "San Francisco", "foo">>

StrRank(s) == CHOOSE i \in DOMAIN StrOrder : StrOrder[i] = s

CellLess(a, b) ==
    IF a.t = "num" /\ b.t = "num" THEN RatLess(a, b)
    ELSE IF a.t = "str" /\ b.t = "str" THEN StrRank(a.s) < StrRank(b.s)
    ELSE FALSE

(***************************************************************************)
(* DataFrame operations.                                                   *)
(***************************************************************************)
ColIndex(columns, name) ==
    CHOOSE i \in DOMAIN columns :
        columns[i] = name /\ \A j \in 1..(i - 1) : columns[j] # name

HasColumns(d, names) == names \subseteq Range(d.columns)

Column(rows, j) == [i \in DOMAIN rows |-> rows[i].cells[j]]

DropNA(rows, subset) ==
    SelectSeq(rows, LAMBDA r : \A j \in Range(subset) : ~IsNA(r.cells[j]))

NUnique(rows, j) ==
    Cardinality({rows[i].cells[j] : i \in {m \in DOMAIN rows : ~IsNA(rows[m].cells[j])}})

Project(rows, subset) ==
    [i \in DOMAIN rows |->
        [idx |-> rows[i].idx,
         cells |-> [m \in DOMAIN subset |-> rows[i].cells[subset[m]]]]]

Duplicated(rows) ==
    [i \in DOMAIN rows |-> \E j \in 1..(i - 1) : rows[j].cells = rows[i].cells]

RECURSIVE KeepWhere(_, _)
KeepWhere(rows, keep) ==
    IF rows = <<>> THEN <<>>
    ELSE LET rest == KeepWhere(Front(rows), keep)
         IN  IF keep[Len(rows)] THEN Append(rest, Last(rows)) ELSE rest

DropDuplicatesAdjacent(rows) ==
    KeepWhere(rows, [i \in DOMAIN rows |->
                        ~(i > 1 /\ rows[i - 1].cells = rows[i].cells)])

DropDuplicates(rows) ==
    KeepWhere(rows, [i \in DOMAIN rows |-> ~Duplicated(rows)[i]])

InsertSorted(sorted, r, k) ==
    LET p == Cardinality({i \in DOMAIN sorted : ~CellLess(r.cells[k], sorted[i].cells[k])})
    IN  SubSeq(sorted, 1, p) \o <<r>> \o SubSeq(sorted, p + 1, Len(sorted))

RECURSIVE SortValues(_, _)
SortValues(rows, k) ==
    IF rows = <<>> THEN <<>>
    ELSE InsertSorted(SortValues(Front(rows), k), Last(rows), k)

(***************************************************************************)
(* detect_inconsistencies(df, col1, col2).  col2 is [str |-> name] or      *)
(* [list |-> <<name, ...>>].                                               *)
(***************************************************************************)
GroupIsInconsistentAll(group, deps) ==
    \A j \in Range(deps) : NUnique(group, j) > 1

GroupIsInconsistentGe(group, deps) ==
    \E j \in Range(deps) : NUnique(group, j) >= 1

GroupIsInconsistent(group, deps) ==
    \E j \in Range(deps) : NUnique(group, j) > 1

GroupByFilter(rows, k, deps) ==
    SelectSeq(rows, LAMBDA r :
        GroupIsInconsistent(SelectSeq(rows, LAMBDA q : q.cells[k] = r.cells[k]), deps))

detect_inconsistencies(d, col1, col2) ==
    LET col2list == IF "str" \in DOMAIN col2 THEN <<col2.str>> ELSE col2.list
        check_cols == <<col1>> \o col2list
        check_idx == [m \in DOMAIN check_cols |-> ColIndex(d.columns, check_cols[m])]
        df_temp == DropNA(d.rows, check_idx)
        inconsistent == GroupByFilter(df_temp, check_idx[1], Tail(check_idx))
        projected == DropDuplicates(Project(inconsistent, check_idx))
    IN  [columns |-> check_cols, rows |-> SortValues(projected, 1)]

(***************************************************************************)
(* Tables.                                                                 *)
(***************************************************************************)
MkRows(cellRows) == [i \in DOMAIN cellRows |-> [idx |-> i - 1, cells |-> cellRows[i]]]

NoTable == [columns |-> <<>>, rows |-> <<>>]

Idle == [fn |-> "none"]

NoLogger == [txt |-> <<>>, doc |-> <<>>, calls |-> <<>>, raised |-> FALSE]

NoFile == [exists |-> FALSE, writes |-> 0]

NoHist == [trace |-> <<>>, post_dedup |-> NoTable]

(***************************************************************************)
(* Column names: df.columns.str.strip().str.replace(' ', '_').str.lower(). *)
(***************************************************************************)
UpperChars == <<"A", "B", "C", "D", "E", "F", "G", "H", "I", "J", "K", "L", "M",
                "N", "O", "P", "Q", "R", "S", "T", "U", "V", "W", "X", "Y", "Z">>

LowerChars == <<"a", "b", "c", "d", "e", "f", "g", "h", "i", "j", "k", "l", "m",
                "n", "o", "p", "q", "r", "s", "t", "u", "v", "w", "x", "y", "z">>

Whitespace == {" ", "\t", "\n", "\r"}

RECURSIVE LStrip(_)
LStrip(s) == IF s # <<>> /\ Head(s) \in Whitespace THEN LStrip(Tail(s)) ELSE s

RECURSIVE RStrip(_)
RStrip(s) == IF s # <<>> /\ Last(s) \in Whitespace THEN RStrip(Front(s)) ELSE s

StrStrip(s) == RStrip(LStrip(s))

StrReplaceFirst(s, old, new) ==
    [i \in DOMAIN s |->
        IF s[i] = old /\ \A j \in 1..(i - 1) : s[j] # old THEN new ELSE s[i]]

StrReplace(s, old, new) == [i \in DOMAIN s |-> IF s[i] = old THEN new ELSE s[i]]

LowerChar(c) ==
    IF \E i \in DOMAIN UpperChars : UpperChars[i] = c
    THEN LowerChars[CHOOSE i \in DOMAIN UpperChars : UpperChars[i] = c]
    ELSE c

StrLower(s) == [i \in DOMAIN s |-> LowerChar(s[i])]

StandardizeName(name) == StrLower(StrReplace(StrStrip(name), " ", "_"))

StandardizeColumns(columns) == [i \in DOMAIN columns |-> StandardizeName(columns[i])]

DateColName(c) == StrReplace(StrLower(c), " ", "_")

(***************************************************************************)
(* AnalysisLogger.  txt is the text log file, doc the docx document in     *)
(* memory, calls the logger methods called so far, raised whether a method *)
(* raised.  A message is [tmpl, args]: the f-string and its values.        *)
(***************************************************************************)
Msg(tmpl, args) == [tmpl |-> tmpl, args |-> args]

None == [none |-> TRUE]

Some(v) == [v |-> v]

IsNone(x) == "none" \in DOMAIN x

N_index == <<"i", "n", "d", "e", "x">>

DefaultMaxRows == 15

AnalysisLogger_init ==
    [txt |-> <<[kind |-> "generated"], [kind |-> "rule"]>>,
     doc |-> <<[kind |-> "heading", text |-> "Technical Data Analysis Report", level |-> 0]>>,
     calls |-> <<>>,
     raised |-> FALSE]

log_section(L, title, level) ==
    [L EXCEPT !.txt = Append(@, [kind |-> "section", text |-> title]),
              !.doc = Append(@, [kind |-> "heading", text |-> title, level |-> level]),
              !.calls = Append(@, "log_section")]

log_message(L, message) ==
    [L EXCEPT !.txt = Append(@, [kind |-> "message", text |-> message]),
              !.doc = Append(@, [kind |-> "paragraph", text |-> message]),
              !.calls = Append(@, "log_message")]

AddParagraph(L, message) ==
    [L EXCEPT !.doc = Append(@, [kind |-> "paragraph", text |-> message])]

(* df.head(n): the first n rows, or all but the last -n rows when n < 0 *)
DfHead(rows, n) ==
    IF n >= 0 THEN SubSeq(rows, 1, IF n < Len(rows) THEN n ELSE Len(rows))
    ELSE SubSeq(rows, 1, Len(rows) + n)

ResetIndex(d) ==
    [columns |-> <<N_index>> \o d.columns,
     rows |-> [i \in DOMAIN d.rows |->
                 [idx |-> i - 1, cells |-> <<d.rows[i].idx>> \o d.rows[i].cells]]]

(* "if title", "if max_rows": None, "" and 0 are false *)
TruthyTitle(title) == ~IsNone(title) /\ title.v # ""

TruthyLimit(max_rows) == ~IsNone(max_rows) /\ max_rows.v # 0

DisplayDf(d, max_rows) ==
    IF TruthyLimit(max_rows)
    THEN ResetIndex([columns |-> d.columns, rows |-> DfHead(d.rows, max_rows.v)])
    ELSE ResetIndex(d)

log_table(L, d, title, max_rows) ==
    LET L1 == [L EXCEPT !.calls = Append(@, "log_table")]
        L2 == IF TruthyTitle(title) THEN log_message(L1, Msg(title.v, <<>>)) ELSE L1
        display_df == DisplayDf(d, max_rows)
        L3 == [L2 EXCEPT !.doc = Append(@, [kind |-> "table",
                                            header |-> display_df.columns,
                                            rows |-> [i \in DOMAIN display_df.rows |->
                                                        display_df.rows[i].cells]])]
    IN  IF d.rows = <<>> \/ d.columns = <<>>
        THEN AddParagraph(L2, Msg("No issues/data found for this metric.", <<>>))
        ELSE IF IsNone(max_rows)
        THEN [L3 EXCEPT !.raised = TRUE]
        ELSE IF Len(d.rows) > max_rows.v
        THEN AddParagraph(
                 AddParagraph(L3, Msg("... [Truncated: {} more rows]",
                                      <<Len(d.rows) - max_rows.v>>)),
                 Msg("", <<>>))
        ELSE AddParagraph(L3, Msg("", <<>>))

save_report(L) == [L EXCEPT !.calls = Append(@, "save_report")]

(***************************************************************************)
(* Column arithmetic of run_pipeline.                                      *)
(***************************************************************************)
(* float division as pandas does it: x/0 is inf, -inf or (0/0) nan *)
Divide(a, b) ==
    IF a.t # "num" \/ b.t # "num" THEN NaN
    ELSE IF b.n = 0 THEN (IF a.n > 0 THEN PosInf ELSE IF a.n < 0 THEN NegInf ELSE NaN)
    ELSE Num(a.n * b.d, a.d * b.n)

(* .replace([np.inf, -np.inf], 0) *)
ReplaceInf(c) == IF c.t \in {"inf", "ninf"} THEN Int2Cell(0) ELSE c

(* .astype(str) of a cell that is text or missing *)
AsStr(c) == IF c.t = "str" THEN c.s ELSE "nan"

(* df[name] = values: an existing column is overwritten, a new one appended *)
SetColumn(d, name, values) ==
    IF name \in Range(d.columns)
    THEN [d EXCEPT !.rows = [i \in DOMAIN d.rows |->
                [@[i] EXCEPT !.cells[ColIndex(d.columns, name)] = values[i]]]]
    ELSE [columns |-> Append(d.columns, name),
          rows |-> [i \in DOMAIN d.rows |->
                [d.rows[i] EXCEPT !.cells = Append(@, values[i])]]]

CountTrue(flags) == Cardinality({i \in DOMAIN flags : flags[i]})

FullDupsKeepFalse(rows) ==
    CountTrue([i \in DOMAIN rows |->
                  \E j \in DOMAIN rows : j # i /\ rows[j].cells = rows[i].cells])

(* df.duplicated().sum() *)
FullDups(rows) == CountTrue(Duplicated(rows))

(* df.isna().sum() restricted to the columns with a count > 0 *)
MissingSummary(d) ==
    LET count(j) == Cardinality({i \in DOMAIN d.rows : IsNA(d.rows[i].cells[j])})
        all == [j \in DOMAIN d.columns |->
                   [idx |-> d.columns[j], cells |-> <<Int2Cell(count(j))>>]]
    IN  [columns |-> <<N_MissingCount>>,
         rows |-> SelectSeq(all, LAMBDA r : r.cells[1].n > 0)]

(* pd.to_datetime(..., errors='coerce') of a text or missing cell *)
ParsableDates == {"2024-01-05"}

DateOrdinal == [s \in ParsableDates |-> 20240105]

ToDatetime(c) ==
    IF c.t = "str" /\ c.s \in ParsableDates THEN Timestamp(DateOrdinal[c.s]) ELSE NaT

RECURSIVE SortCells(_)
SortCells(cells) ==
    IF cells = <<>> THEN <<>>
    ELSE LET sorted == SortCells(Front(cells))
             c == Last(cells)
             p == Cardinality({i \in DOMAIN sorted : ~CellLess(c, sorted[i])})
         IN  SubSeq(sorted, 1, p) \o <<c>> \o SubSeq(sorted, p + 1, Len(sorted))

MedianSkipNA(cells) ==
    LET vals == SortCells(SelectSeq(cells, LAMBDA c : ~IsNA(c)))
        n == Len(vals)
        lo == vals[n \div 2]
        hi == vals[n \div 2 + 1]
    IN  IF n = 0 THEN NaN
        ELSE IF n % 2 = 1 THEN hi
        ELSE Num(lo.n * hi.d + hi.n * lo.d, 2 * lo.d * hi.d)

(* df.select_dtypes(include=[np.number]): a column read with nothing but
   numbers and missing values *)
IsNumericColumn(d, j) == \A i \in DOMAIN d.rows : IsNumber(d.rows[i].cells[j])

HasNA(d, j) == \E i \in DOMAIN d.rows : IsNA(d.rows[i].cells[j])

ImputedColumns(d) == {j \in DOMAIN d.columns : IsNumericColumn(d, j) /\ HasNA(d, j)}

FillNA(d) ==
    [d EXCEPT !.rows = [i \in DOMAIN d.rows |->
        [@[i] EXCEPT !.cells = [j \in DOMAIN d.columns |->
            IF j \in ImputedColumns(d) /\ IsNA(d.rows[i].cells[j])
            THEN MedianSkipNA(Column(d.rows, j))
            ELSE d.rows[i].cells[j]]]]]

RECURSIVE LogImputed(_, _, _)
LogImputed(L, d, j) ==
    IF j = 0 THEN L
    ELSE LET prev == LogImputed(L, d, j - 1)
         IN  IF j \in ImputedColumns(d)
             THEN log_message(prev, Msg("Imputed missing values in '{}' with median: {}",
                                        <<d.columns[j], MedianSkipNA(Column(d.rows, j))>>))
             ELSE prev

RECURSIVE ParseDates(_, _)
ParseDates(d, k) ==
    IF k = 0 THEN d
    ELSE LET prev == ParseDates(d, k - 1)
             col == DateColName(DATE_COLS[k])
         IN  IF col \in Range(prev.columns)
             THEN SetColumn(prev, col,
                     [i \in DOMAIN prev.rows |->
                         ToDatetime(prev.rows[i].cells[ColIndex(prev.columns, col)])])
             ELSE prev

RECURSIVE LogDates(_, _, _)
LogDates(L, d, k) ==
    IF k = 0 THEN L
    ELSE LET prev == LogDates(L, d, k - 1)
             col == DateColName(DATE_COLS[k])
         IN  IF col \in Range(d.columns)
             THEN log_message(prev, Msg("Converted '{}' to datetime.", <<col>>))
             ELSE prev

(***************************************************************************)
(* run_pipeline: the input tables of the model.                            *)
(***************************************************************************)
KpiRows ==
    {<<Int2Cell(0), Int2Cell(0)>>, <<Int2Cell(1), Int2Cell(0)>>,
     <<Int2Cell(1), Int2Cell(2)>>, <<Int2Cell(3), Int2Cell(2)>>,
     <<NaN, Int2Cell(2)>>, <<Int2Cell(1), NaN>>}

(* a table that already holds a Profit_Margin column *)
KpiOverwriteRows ==
    ({Int2Cell(-1)} \X {Int2Cell(0), Int2Cell(2)} \X {NaN, Int2Cell(5)})
        \cup {<<Int2Cell(0), Int2Cell(0), Int2Cell(5)>>,
              <<Int2Cell(0), Int2Cell(2), NaN>>}

DateRows == {NaN, Str("2024-01-05"), Str("foo")} \X {NaN, Int2Cell(1)}

ProductRows ==
    ({Str("P1"), Str("P2")} \X {Str("Bolt"), Str("Nut")})
        \cup {<<NaN, Str("Bolt")>>, <<Str("P1"), NaN>>}

PostalRows ==
    {Int2Cell(10001), Int2Cell(94110)} \X {Str("Los Angeles"), Str("San Francisco")}

TablesOf(columns, rowSet) ==
    {[columns |-> columns, rows |-> MkRows(cr)] : cr \in SeqsUpTo(rowSet, MaxRows)}

InputTables ==
    TablesOf(<<N_Profit, N_Sales>>, KpiRows)
        \cup TablesOf(<<N_Profit, N_Sales, N_Profit_Margin>>, KpiOverwriteRows)
        \cup TablesOf(<<N_OrderDate, N_Quantity>>, DateRows)
        \cup TablesOf(<<N_ProductID, N_ProductName>>, ProductRows)
        \cup TablesOf(<<N_PostalCode, N_City>>, PostalRows)

Stages == <<"load", "assess", "detect", "derive", "normalize", "dedup", "dates",
            "impute", "write", "finalize">>

Ran(stage) == [hist EXCEPT !.trace = Append(@, stage)]

(***************************************************************************)
(* run_pipeline, one action per stage.                                     *)
(***************************************************************************)
Init ==
    /\ pc = "start"
    /\ rawFile \in {[exists |-> FALSE, table |-> NoTable]}
                    \cup {[exists |-> TRUE, table |-> t] : t \in InputTables}
    /\ df = NoTable
    /\ logger = NoLogger
    /\ cleanFile = NoFile
    /\ reportFile = NoFile
    /\ hist = NoHist
    /\ call = Idle

Construct ==
    /\ pc = "start"
    /\ pc' = "load"
    /\ logger' = AnalysisLogger_init
    /\ UNCHANGED <<rawFile, df, cleanFile, reportFile, hist, call>>

LoadMissingFallThrough ==
    /\ pc = "load"
    /\ ~rawFile.exists
    /\ pc' = "assess"
    /\ logger' = log_section(
                    log_message(logger, Msg("CRITICAL: {} not found.", <<RAW_DATA_PATH>>)),
                    "1. Data Quality Assessment", 1)
    /\ UNCHANGED <<rawFile, df, cleanFile, reportFile, hist, call>>

LoadMissing ==
    /\ pc = "load"
    /\ ~rawFile.exists
    /\ pc' = "done"
    /\ logger' = log_message(logger, Msg("CRITICAL: {} not found.", <<RAW_DATA_PATH>>))
    /\ UNCHANGED <<rawFile, df, cleanFile, reportFile, hist, call>>

Load ==
    /\ pc = "load"
    /\ rawFile.exists
    /\ pc' = "assess"
    /\ df' = rawFile.table
    /\ logger' = log_message(
                    log_section(logger, "1. Data Quality Assessment", 1),
                    Msg("Initial Shape: {} rows, {} columns.",
                        <<Len(rawFile.table.rows), Len(rawFile.table.columns)>>))
    /\ hist' = Ran("load")
    /\ UNCHANGED <<rawFile, cleanFile, reportFile, call>>

Assess ==
    /\ pc = "assess"
    /\ pc' = "detect"
    /\ logger' = log_message(
                    log_table(logger, MissingSummary(df), Some("Missing Values Summary"),
                              Some(DefaultMaxRows)),
                    Msg("Fully Duplicated Rows: {}", <<FullDups(df.rows)>>))
    /\ hist' = Ran("assess")
    /\ UNCHANGED <<rawFile, df, cleanFile, reportFile, call>>

Detect ==
    /\ pc = "detect"
    /\ pc' = "derive"
    /\ LET L0 == log_section(logger, "2. Logical Inconsistency Check", 2)
           L1 == IF HasColumns(df, {N_PostalCode, N_City})
                 THEN log_table(L0,
                          detect_inconsistencies(df, N_PostalCode, [str |-> N_City]),
                          Some("Inconsistent Mapping: One Postal Code to Many Cities"),
                          Some(DefaultMaxRows))
                 ELSE L0
           L2 == IF HasColumns(df, {N_ProductID, N_ProductName})
                 THEN log_table(L1,
                          detect_inconsistencies(df, N_ProductID, [str |-> N_ProductName]),
                          Some("Inconsistent Mapping: One Product ID to Many Names"),
                          Some(DefaultMaxRows))
                 ELSE L1
       IN  logger' = L2
    /\ hist' = Ran("detect")
    /\ UNCHANGED <<rawFile, df, cleanFile, reportFile, call>>

ProfitMargin(d) ==
    [i \in DOMAIN d.rows |->
        ReplaceInf(Divide(d.rows[i].cells[ColIndex(d.columns, N_Profit)],
                          d.rows[i].cells[ColIndex(d.columns, N_Sales)]))]

ProductFullName(d) ==
    [i \in DOMAIN d.rows |->
        Str(AsStr(d.rows[i].cells[ColIndex(d.columns, N_ProductID)]) \o " | "
                \o AsStr(d.rows[i].cells[ColIndex(d.columns, N_ProductName)]))]

Derive ==
    /\ pc = "derive"
    /\ pc' = "normalize"
    /\ LET L0 == log_section(logger, "3. Calculations & KPI Enrichment", 1)
           kpi == HasColumns(df, {N_Profit, N_Sales})
           d1 == IF kpi THEN SetColumn(df, N_Profit_Margin, ProfitMargin(df)) ELSE df
           L1 == IF kpi
                 THEN log_message(L0, Msg("Added KPI: Profit_Margin (Profit / Sales)", <<>>))
                 ELSE L0
           attr == HasColumns(d1, {N_ProductID, N_ProductName})
           d2 == IF attr THEN SetColumn(d1, N_Product_Full_Name, ProductFullName(d1)) ELSE d1
           L2 == IF attr
                 THEN log_message(L1, Msg("Added Attribute: Product_Full_Name", <<>>))
                 ELSE L1
       IN  df' = d2 /\ logger' = L2
    /\ hist' = Ran("derive")
    /\ UNCHANGED <<rawFile, cleanFile, reportFile, call>>

Normalize ==
    /\ pc = "normalize"
    /\ pc' = "dedup"
    /\ df' = [df EXCEPT !.columns = StandardizeColumns(@)]
    /\ logger' = log_message(
                    log_section(logger, "4. Data Cleaning & Transformation Log", 1),
                    Msg("Standardized column names to lowercase snake_case.", <<>>))
    /\ hist' = Ran("normalize")
    /\ UNCHANGED <<rawFile, cleanFile, reportFile, call>>

Dedup ==
    /\ pc = "dedup"
    /\ pc' = "dates"
    /\ LET initial_count == Len(df.rows)
           d1 == [df EXCEPT !.rows = DropDuplicates(@)]
       IN  /\ df' = d1
           /\ logger' = log_message(logger, Msg("Dropped {} duplicate rows.",
                                                <<initial_count - Len(d1.rows)>>))
           /\ hist' = [Ran("dedup") EXCEPT !.post_dedup = d1]
    /\ UNCHANGED <<rawFile, cleanFile, reportFile, call>>

Dates ==
    /\ pc = "dates"
    /\ pc' = "impute"
    /\ df' = ParseDates(df, Len(DATE_COLS))
    /\ logger' = LogDates(logger, df, Len(DATE_COLS))
    /\ hist' = Ran("dates")
    /\ UNCHANGED <<rawFile, cleanFile, reportFile, call>>

Impute ==
    /\ pc = "impute"
    /\ pc' = "write"
    /\ df' = FillNA(df)
    /\ logger' = LogImputed(logger, df, Len(df.columns))
    /\ hist' = Ran("impute")
    /\ UNCHANGED <<rawFile, cleanFile, reportFile, call>>

Write ==
    /\ pc = "write"
    /\ pc' = "final"
    /\ cleanFile' = [exists |-> TRUE, writes |-> cleanFile.writes + 1, table |-> df]
    /\ LET L0 == log_message(
                    log_section(logger, "5. Final Dataset Summary", 1),
                    Msg("Final Row Count: {}", <<Len(df.rows)>>))
           L1 == [L0 EXCEPT !.calls = Append(@, "to_csv")]
       IN  logger' = log_message(L1, Msg("Cleaned dataset exported to: {}",
                                         <<CLEAN_DATA_PATH>>))
    /\ hist' = Ran("write")
    /\ UNCHANGED <<rawFile, df, reportFile, call>>

FinalizeThenLog ==
    /\ pc = "final"
    /\ pc' = "done"
    /\ reportFile' = [exists |-> TRUE, writes |-> reportFile.writes + 1, doc |-> logger.doc]
    /\ logger' = log_message(save_report(logger), Msg("Process Complete.", <<>>))
    /\ hist' = Ran("finalize")
    /\ UNCHANGED <<rawFile, df, cleanFile, call>>

Finalize ==
    /\ pc = "final"
    /\ pc' = "done"
    /\ reportFile' = [exists |-> TRUE, writes |-> reportFile.writes + 1, doc |-> logger.doc]
    /\ logger' = save_report(logger)
    /\ hist' = Ran("finalize")
    /\ UNCHANGED <<rawFile, df, cleanFile, call>>

Next ==
    \/ Construct
    \/ LoadMissing
    \/ Load
    \/ Assess
    \/ Detect
    \/ Derive
    \/ Normalize
    \/ Dedup
    \/ Dates
    \/ Impute
    \/ Write
    \/ Finalize

Spec == Init /\ [][Next]_vars

(***************************************************************************)
(* SpecDetect: detect_inconsistencies called on a bounded table.           *)
(***************************************************************************)
(* complete rows on two keys, a row with no key and a row with no city *)
DetectRows ==
    {<<Int2Cell(10001), Str("Los Angeles"), Str("CA")>>,
     <<Int2Cell(10001), Str("San Francisco"), Str("CA")>>,
     <<Int2Cell(10001), Str("Los Angeles"), Str("NV")>>,
     <<Int2Cell(94110), Str("San Francisco"), Str("CA")>>,
     <<Int2Cell(94110), Str("Los Angeles"), Str("CA")>>,
     <<NaN, Str("Los Angeles"), Str("CA")>>,
     <<Int2Cell(10001), NaN, Str("NV")>>}

DetectCol2 == {[str |-> N_City], [list |-> <<N_City, N_State>>]}

DetectTables ==
    {[columns |-> <<N_PostalCode, N_City, N_State>>, rows |-> MkRows(cr)] :
        cr \in SeqsUpTo(DetectRows, MaxDetectRows)}

InitDetect ==
    /\ pc = "detect_call"
    /\ call \in {[fn |-> "detect_inconsistencies", df |-> t, col1 |-> N_PostalCode,
                  col2 |-> c] : t \in DetectTables, c \in DetectCol2}
    /\ rawFile = [exists |-> FALSE, table |-> NoTable]
    /\ df = NoTable
    /\ logger = NoLogger
    /\ cleanFile = NoFile
    /\ reportFile = NoFile
    /\ hist = NoHist

DetectCall ==
    /\ pc = "detect_call"
    /\ pc' = "detect_done"
    /\ call' = [fn |-> call.fn, df |-> call.df, col1 |-> call.col1, col2 |-> call.col2,
                result |-> detect_inconsistencies(call.df, call.col1, call.col2)]
    /\ UNCHANGED <<rawFile, df, logger, cleanFile, reportFile, hist>>

NextDetect == DetectCall

SpecDetect == InitDetect /\ [][NextDetect]_vars

(***************************************************************************)
(* SpecLogTable: log_table called on a fresh logger with a bounded table,  *)
(* title and max_rows.                                                     *)
(***************************************************************************)
LogTables ==
    {[columns |-> <<N_Quantity>>,
      rows |-> [i \in 1..n |-> [idx |-> i - 1, cells |-> <<Int2Cell(i)>>]]] :
        n \in 0..MaxTableRows}

LogTitles == {None, Some("Missing Values Summary")}

LogLimits == {None} \cup {Some(m) : m \in (-1)..MaxLimit}

InitLogTable ==
    /\ pc = "log_table_call"
    /\ call \in {[fn |-> "log_table", df |-> t, title |-> ti, max_rows |-> m] :
                    t \in LogTables, ti \in LogTitles, m \in LogLimits}
    /\ logger = AnalysisLogger_init
    /\ rawFile = [exists |-> FALSE, table |-> NoTable]
    /\ df = NoTable
    /\ cleanFile = NoFile
    /\ reportFile = NoFile
    /\ hist = NoHist

LogTableCall ==
    /\ pc = "log_table_call"
    /\ pc' = "log_table_done"
    /\ logger' = log_table(logger, call.df, call.title, call.max_rows)
    /\ UNCHANGED <<rawFile, df, cleanFile, reportFile, hist, call>>

NextLogTable == LogTableCall

SpecLogTable == InitLogTable /\ [][NextLogTable]_vars

(***************************************************************************)
(* SpecNorm: the column names standardized, and standardized once more.    *)
(***************************************************************************)
NameChars == {" ", "\t", "A", "a", "_"}

InitNorm ==
    /\ pc = "norm_0"
    /\ call \in {[fn |-> "standardize", name |-> n] : n \in SeqsUpTo(NameChars, MaxNameLen)}
    /\ df = [columns |-> <<call.name>>, rows |-> <<>>]
    /\ logger = NoLogger
    /\ rawFile = [exists |-> FALSE, table |-> NoTable]
    /\ cleanFile = NoFile
    /\ reportFile = NoFile
    /\ hist = NoHist

StandardizeOnce ==
    /\ pc = "norm_0"
    /\ pc' = "norm_1"
    /\ df' = [df EXCEPT !.columns = StandardizeColumns(@)]
    /\ hist' = [trace |-> <<>>, once |-> StandardizeColumns(df.columns)]
    /\ UNCHANGED <<rawFile, logger, cleanFile, reportFile, call>>

StandardizeTwice ==
    /\ pc = "norm_1"
    /\ pc' = "norm_2"
    /\ df' = [df EXCEPT !.columns = StandardizeColumns(@)]
    /\ UNCHANGED <<rawFile, logger, cleanFile, reportFile, hist, call>>

NextNorm == StandardizeOnce \/ StandardizeTwice

SpecNorm == InitNorm /\ [][NextNorm]_vars

(***************************************************************************)
(* What detect_inconsistencies is to return, stated on the argument table. *)
(***************************************************************************)
DetDeps == IF "str" \in DOMAIN call.col2 THEN <<call.col2.str>> ELSE call.col2.list

DetCheckIdx ==
    [m \in 1..(1 + Len(DetDeps)) |->
        IF m = 1 THEN ColIndex(call.df.columns, call.col1)
        ELSE ColIndex(call.df.columns, DetDeps[m - 1])]

(* the (key, dependent...) tuples of the rows with nothing missing in them *)
DetCleanTuples ==
    {t \in {[m \in DOMAIN DetCheckIdx |-> call.df.rows[i].cells[DetCheckIdx[m]]] :
                i \in DOMAIN call.df.rows} :
        \A m \in DOMAIN t : ~IsNA(t[m])}

(* the keys with at least 2 distinct values in some dependent column *)
DetBadKeys ==
    LET clean == DetCleanTuples
    IN  {k \in {t[1] : t \in clean} :
            \E m \in 2..Len(DetCheckIdx) :
                \E t1, t2 \in clean : t1[1] = k /\ t2[1] = k /\ t1[m] # t2[m]}

DetResult == call.result.rows

(* C1: detect_inconsistencies returns only (key, dependent...) tuples of rows
   with nothing missing whose key has at least 2 distinct values in some
   dependent column; no tuple is returned twice; the result is sorted
   ascending by key; and it is empty when every key maps to one tuple. *)
C1_DetectSoundDistinctSorted ==
    pc = "detect_done" =>
        LET clean == DetCleanTuples
            bad == DetBadKeys
            res == DetResult
        IN  /\ \A i \in DOMAIN res : res[i].cells \in clean /\ res[i].cells[1] \in bad
            /\ \A i, j \in DOMAIN res : i # j => res[i].cells # res[j].cells
            /\ \A i, j \in DOMAIN res :
                    i < j => ~CellLess(res[j].cells[1], res[i].cells[1])
            /\ (\A t1, t2 \in clean : t1[1] = t2[1] => t1 = t2) => res = <<>>

(* two keys are flagged, the larger one first in the table, and their four
   tuples are returned *)
C1_Witness ==
    /\ pc = "detect_done"
    /\ Cardinality(DetBadKeys) = 2
    /\ call.df.rows[1].cells[1] = Int2Cell(94110)
    /\ Len(DetResult) = 4

(* C2: with several dependent columns a key is flagged as soon as ONE of
   them takes 2 distinct values on it; the result holds exactly every
   distinct (key, dependent...) tuple of the flagged keys' rows with nothing
   missing, so a row with a missing value neither appears nor flags a key. *)
C2_DetectComplete ==
    pc = "detect_done" =>
        LET bad == DetBadKeys
        IN  {DetResult[i].cells : i \in DOMAIN DetResult}
                = {t \in DetCleanTuples : t[1] \in bad}

(* two dependent columns, the first constant on the flagged key and the
   second not, and a row with a missing city on the same key *)
C2_Witness ==
    /\ pc = "detect_done"
    /\ "list" \in DOMAIN call.col2
    /\ \E k \in DetBadKeys :
            /\ \A t1, t2 \in DetCleanTuples : t1[1] = k /\ t2[1] = k => t1[2] = t2[2]
            /\ \E i \in DOMAIN call.df.rows :
                    call.df.rows[i].cells[1] = k /\ IsNA(call.df.rows[i].cells[2])
    /\ DetResult # <<>>

(* C7: standardizing the column names twice gives the names that
   standardizing them once gives. *)
C7_StandardizeIdempotent ==
    pc = "norm_2" => df.columns = hist.once

(* a name with an upper-case letter and an inner space, both rewritten *)
C7_Witness ==
    /\ pc = "norm_2"
    /\ "A" \in Range(call.name)
    /\ "_" \notin Range(call.name)
    /\ "_" \in Range(df.columns[1])
    /\ df.columns[1] # call.name

(* the elements log_table added to the document *)
LtAdded == SubSeq(logger.doc, 2, Len(logger.doc))

LtTables == {i \in DOMAIN LtAdded : LtAdded[i].kind = "table"}

LtNotices ==
    {i \in DOMAIN LtAdded :
        LtAdded[i].kind = "paragraph" /\ LtAdded[i].text.tmpl = "... [Truncated: {} more rows]"}

LtRendered == Len(LtAdded[CHOOSE i \in LtTables : TRUE].rows)

(* C9: for an empty table log_table records the "no issues" paragraph and no
   table; for a non-empty one (max_rows None and 0 meaning no limit) it
   returns normally having rendered one table of at most max_rows rows when a
   limit applies, with a truncation notice exactly when rows were left out,
   stating the number left out. *)
C9_LogTableNotice ==
    pc = "log_table_done" =>
        IF call.df.rows = <<>>
        THEN /\ LtTables = {}
             /\ \E i \in DOMAIN LtAdded :
                    /\ LtAdded[i].kind = "paragraph"
                    /\ LtAdded[i].text.tmpl = "No issues/data found for this metric."
        ELSE /\ ~logger.raised
             /\ Cardinality(LtTables) = 1
             /\ TruthyLimit(call.max_rows) /\ call.max_rows.v > 0
                    => LtRendered <= call.max_rows.v
             /\ (LtNotices # {}) <=> (LtRendered < Len(call.df.rows))
             /\ \A i \in LtNotices :
                    LtAdded[i].text.args = <<Len(call.df.rows) - LtRendered>>

(***************************************************************************)
(* run_pipeline: what the run logged, and the loaded table it started from.*)
(***************************************************************************)
Raw == rawFile.table

AfterDerive == {"normalize", "dedup", "dates", "impute", "write", "final", "done"}

AfterDedup == {"dates", "impute", "write", "final", "done"}

AfterImpute == {"write", "final", "done"}

(* the values of the messages of the text log written from f-string tmpl *)
Logged(tmpl) ==
    {logger.txt[i].text.args[1] :
        i \in {m \in DOMAIN logger.txt :
                  logger.txt[m].kind = "message" /\ logger.txt[m].text.tmpl = tmpl}}

NoTwoRowsEqual(rows) ==
    \A i, j \in DOMAIN rows : i # j => rows[i].cells # rows[j].cells

(* C3: after the KPI stage every profit_margin cell is a finite number, and
   it is 0 in every row loaded with sales = 0, whatever the profit. *)
C3_ProfitMarginFinite ==
    (rawFile.exists /\ HasColumns(Raw, {N_Profit, N_Sales}) /\ pc \in AfterDerive) =>
        LET m == IF N_Profit_Margin \in Range(Raw.columns)
                 THEN ColIndex(Raw.columns, N_Profit_Margin)
                 ELSE Len(Raw.columns) + 1
            s == ColIndex(Raw.columns, N_Sales)
        IN  \A i \in DOMAIN df.rows :
                /\ IsFinite(df.rows[i].cells[m])
                /\ Raw.rows[df.rows[i].idx + 1].cells[s] = Int2Cell(0)
                       => df.rows[i].cells[m] = Int2Cell(0)

(* the value of rank r (from 0) among the non-missing cells *)
OrderStat(cells, r) ==
    CHOOSE x \in Range(cells) :
        /\ Cardinality({i \in DOMAIN cells : CellLess(cells[i], x)}) <= r
        /\ r < Cardinality({i \in DOMAIN cells : ~CellLess(x, cells[i])})

MedianOf(cells) ==
    LET vals == SelectSeq(cells, LAMBDA c : ~IsNA(c))
        lo == OrderStat(vals, (Len(vals) - 1) \div 2)
        hi == OrderStat(vals, Len(vals) \div 2)
    IN  Num(lo.n * hi.d + hi.n * lo.d, 2 * lo.d * hi.d)

(* C4: after imputation a numeric column of the post-dedup table that had
   missing values (were they all missing) has none, its other cells are
   unchanged and each imputed cell is the median of the column's non-missing
   values in the post-dedup table. *)
C4_ImputationComplete ==
    (rawFile.exists /\ pc \in AfterImpute) =>
        \A j \in DOMAIN hist.post_dedup.columns :
            IsNumericColumn(hist.post_dedup, j) /\ HasNA(hist.post_dedup, j) =>
                \A i \in DOMAIN df.rows :
                    LET old == hist.post_dedup.rows[i].cells[j]
                        new == df.rows[i].cells[j]
                    IN  /\ ~IsNA(new)
                        /\ ~IsNA(old) => new = old
                        /\ IsNA(old) => new = MedianOf(Column(hist.post_dedup.rows, j))

(* C5 as claimed: no two rows of the cleaned dataset written are identical. *)
C5_CleanedNoTwoRowsEqual ==
    cleanFile.exists => NoTwoRowsEqual(cleanFile.table.rows)

(* C5, amended: no two rows of the table the dedup step leaves (before date
   parsing and imputation) are identical. *)
C5_PostDedupNoTwoRowsEqual ==
    pc = "dates" => NoTwoRowsEqual(df.rows)

(* a row dropped that repeats a row two places before it *)
C5_Witness ==
    /\ pc = "dates"
    /\ Len(Raw.rows) = 3
    /\ Raw.rows[1].cells = Raw.rows[3].cells
    /\ Raw.rows[1].cells # Raw.rows[2].cells
    /\ Len(df.rows) = 2

(* C6: with no input file the run ends without raising, writes neither the
   cleaned dataset nor the report, runs no stage and logs no section, and the
   text log holds a CRITICAL line with the input path. *)
C6_MissingInput ==
    ~rawFile.exists =>
        /\ pc \in {"start", "load", "done"}
        /\ ~cleanFile.exists /\ cleanFile.writes = 0
        /\ ~reportFile.exists /\ reportFile.writes = 0
        /\ hist.trace = <<>> /\ df = NoTable
        /\ \A i \in DOMAIN logger.txt : logger.txt[i].kind # "section"
        /\ \A i \in DOMAIN logger.calls : logger.calls[i] = "log_message"
        /\ ~logger.raised
        /\ pc = "done" =>
               \E i \in DOMAIN logger.txt :
                   /\ logger.txt[i].kind = "message"
                   /\ logger.txt[i].text.tmpl = "CRITICAL: {} not found."
                   /\ logger.txt[i].text.args = <<RAW_DATA_PATH>>

C6_Witness ==
    pc = "done" /\ ~rawFile.exists /\ Len(logger.txt) = 3

Saves == {i \in DOMAIN logger.calls : logger.calls[i] = "save_report"}

(* C8: with the input present the stages run in the order load, assess,
   detect, derive, normalize, dedup, dates, impute, write, finalize, each
   once; the report is saved once, after the cleaned table is written and
   after every log call, and holds everything logged. *)
C8_StageOrderAndSingleSave ==
    rawFile.exists =>
        /\ Len(hist.trace) <= Len(Stages)
        /\ hist.trace = SubSeq(Stages, 1, Len(hist.trace))
        /\ Cardinality(Saves) <= 1
        /\ \A i \in Saves :
               /\ i = Len(logger.calls)
               /\ \E j \in 1..(i - 1) : logger.calls[j] = "to_csv"
        /\ reportFile.writes = Cardinality(Saves)
        /\ reportFile.exists => reportFile.doc = logger.doc /\ cleanFile.exists
        /\ pc = "done" =>
               /\ hist.trace = Stages
               /\ Cardinality(Saves) = 1
               /\ cleanFile.writes = 1

C8_Witness ==
    /\ pc = "done"
    /\ rawFile.exists
    /\ hist.trace = Stages
    /\ Len(Raw.rows) > 0

(* the rows of the loaded table that repeat an earlier row *)
RawDuplicates == Len(Raw.rows) - Cardinality({Raw.rows[i].cells : i \in DOMAIN Raw.rows})

(* the KPI stage writes into a column the loaded table already has *)
Overwrites ==
    \/ HasColumns(Raw, {N_Profit, N_Sales, N_Profit_Margin})
    \/ HasColumns(Raw, {N_ProductID, N_ProductName, N_Product_Full_Name})

(* C10 as claimed: the dropped-rows count logged equals the rows before
   minus the rows after dedup, and equals the 'Fully Duplicated Rows' count
   logged, the rows of the loaded table repeating an earlier one. *)
C10_DropCountEqualsFullDups ==
    (rawFile.exists /\ pc \in AfterDedup) =>
        /\ Logged("Fully Duplicated Rows: {}") = {RawDuplicates}
        /\ Logged("Dropped {} duplicate rows.")
               = {Len(Raw.rows) - Len(hist.post_dedup.rows)}
        /\ Logged("Dropped {} duplicate rows.") = Logged("Fully Duplicated Rows: {}")

(* C10, amended: the two counts are as claimed, the dropped count is never
   below the 'Fully Duplicated Rows' count, and they are equal whenever the
   KPI stage overwrites no column of the loaded table. *)
C10_DropCountAtLeastFullDups ==
    (rawFile.exists /\ pc \in AfterDedup) =>
        /\ Logged("Fully Duplicated Rows: {}") = {RawDuplicates}
        /\ Logged("Dropped {} duplicate rows.")
               = {Len(Raw.rows) - Len(hist.post_dedup.rows)}
        /\ \A d \in Logged("Dropped {} duplicate rows.") :
               \A f \in Logged("Fully Duplicated Rows: {}") :
                   d >= f /\ (~Overwrites => d = f)

(* a KPI column added, the names standardized, and a repeated row dropped *)
C10_Witness ==
    /\ pc = "done"
    /\ HasColumns(Raw, {N_Profit, N_Sales})
    /\ ~Overwrites
    /\ Len(df.columns) = 3
    /\ Logged("Dropped {} duplicate rows.") = {1}
    /\ Logged("Fully Duplicated Rows: {}") = {1}

=============================================================================
